---- MODULE Spec2Model ----
(***************************************************************************)
(* Buffer replacement strategy of the buffer pool (freelist.c): the        *)
(* freelist, the victim queues kept by BufferUnpinned, the four            *)
(* replacement policies of StrategyGetBuffer and the access-strategy ring. *)
(***************************************************************************)
EXTENDS Integers, Sequences, FiniteSets, TLC

\* ------------------------------------------------------------------ bounds
\* Number of frames in the pool (NBuffers is a run-time setting) of every
\* specification but FairSpec.
PoolSize == 3
\* Number of frames in the pool of FairSpec: the cycles that the queue of LRU
\* and MRU can get into take up to four frames.
WalkPoolSize == 4
\* Largest pin count a frame reaches in the model.
MaxPin == 1
\* Largest usage_count a frame reaches in the model.
MaxUsage == 1
\* GetBuffer is not called once numBufferAllocs has reached this value.
MaxAllocs == 1
\* StrategyGetBuffer is not called once completePasses has reached this value.
MaxPasses == 1
\* The same for ClockSpec, where a sweep that ends without a wrap comes only
\* after the first wrap: the frames all leave the freelist with usage_count 1.
MaxClockPasses == 2

\* Number of backend processes that run concurrently.
NumProcs == 2
\* StrategyNotifyBgWriter stores a latch at most this many times.
MaxNotify == 2
\* Allocations counted in SweepSpec.
MaxSweepAllocs == 7
\* Allocations counted in a run that nobody resets the counter of.
MaxRingAllocs == 4
\* Number of slots of the access-strategy ring.
RingSize == 2
\* StrategyFreeBuffer is not called while the freelist holds this many frames.
MaxFreeList == 1
MaxCount == 2
SmallPoolSize == 2

\* --------------------------------------------------------------- constants
NULL == 0 - 1
FREENEXT_END_OF_LIST == 0 - 1
FREENEXT_NOT_IN_LIST == 0 - 2
InvalidBuffer == 0
\* What a walk that never ends yields in place of a frame.
Diverges == 0 - 3

POLICY_CLOCK == "clock"
POLICY_LRU == "lru"
POLICY_MRU == "mru"
POLICY_2Q == "2q"
Policies == {POLICY_CLOCK, POLICY_LRU, POLICY_MRU, POLICY_2Q}

BAS_NORMAL == "BAS_NORMAL"
BAS_BULKREAD == "BAS_BULKREAD"
BAS_BULKWRITE == "BAS_BULKWRITE"
BAS_VACUUM == "BAS_VACUUM"

Latches == {1}

VARIABLES
    BufferReplacementPolicy, \* the policy selector
    StrategyControl,         \* the shared BufferStrategyControl block
    BufferDescriptors,       \* per frame: refcount, usage_count, freeNext,
                             \* previous, next, buf_hdr_lock
    BufFreelistLock,         \* TRUE while the freelist lock is held
    strategy,                \* the caller's BufferAccessStrategy object or NULL
    pc,                      \* position of the running StrategyGetBuffer
    buf,                     \* its local variable buf during a queue walk
    last,                    \* what the operation that ran last returned
    unpinOrder,              \* under LRU and MRU: the frames in the order of
                             \* their latest BufferUnpinned that took the lock
    procs,                   \* per backend process: where it is in
                             \* BufferUnpinned or StrategyGetBuffer, its locals
                             \* and the frames it has pinned
    signals                  \* per non-NULL latch stored by
                             \* StrategyNotifyBgWriter: the SetLatch calls made
                             \* for it

\* The size of the pool, fixed at start-up, and its frames by buf_id.
NBuffers == Cardinality(DOMAIN BufferDescriptors)
Frames == DOMAIN BufferDescriptors

vars == <<BufferReplacementPolicy, StrategyControl, BufferDescriptors,
          BufFreelistLock, strategy, pc, buf, last, unpinOrder, procs, signals>>

\* ----------------------------------------------------------- field updates
SetNext(bd, i, v) == [j \in DOMAIN bd |-> IF j = i THEN [bd[j] EXCEPT !.next = v] ELSE bd[j]]
SetPrevious(bd, i, v) == [j \in DOMAIN bd |-> IF j = i THEN [bd[j] EXCEPT !.previous = v] ELSE bd[j]]
SetFreeNext(bd, i, v) == [j \in DOMAIN bd |-> IF j = i THEN [bd[j] EXCEPT !.freeNext = v] ELSE bd[j]]
LockBufHdr(bd, i) == [j \in DOMAIN bd |-> IF j = i THEN [bd[j] EXCEPT !.buf_hdr_lock = TRUE] ELSE bd[j]]
UnlockBufHdr(bd, i) == [j \in DOMAIN bd |-> IF j = i THEN [bd[j] EXCEPT !.buf_hdr_lock = FALSE] ELSE bd[j]]

BufferDescriptorGetBuffer(b) == b + 1

\* A sequence of pointer stores, applied in program order.  Each store is
\* <<field, frame, value>>.
Store(bd, s) ==
    IF s[1] = "next" THEN SetNext(bd, s[2], s[3]) ELSE SetPrevious(bd, s[2], s[3])

RECURSIVE Apply(_, _)
Apply(bd, stmts) ==
    IF stmts = <<>> THEN bd ELSE Apply(Store(bd, Head(stmts)), Tail(stmts))

\* ------------------------------------------------------------ BufferUnpinned
\* The membership walks of the 2Q branch: "found" when b is met, "absent" when
\* the walk reaches NULL.  A walk that has visited NBuffers + 1 frames without
\* reaching NULL has come back to a frame it visited before and, the links
\* being unchanged under the lock, never ends: "loop".
RECURSIVE Search(_, _, _, _)
Search(bd, head, b, fuel) ==
    IF head = NULL THEN "absent"
    ELSE IF head = b THEN "found"
    ELSE IF fuel = 0 THEN "loop"
    ELSE Search(bd, bd[head].next, b, fuel - 1)

\* if (first == NULL || last == NULL) firstUnpinned = buf; else last->next = buf;
\* buf->previous = last; buf->next = NULL; lastUnpinned = buf;
AppendToAm(sc, bd, b, first, lastU) ==
    [sc |-> [sc EXCEPT !.firstUnpinned = IF first = NULL \/ lastU = NULL THEN b ELSE @,
                       !.lastUnpinned = b],
     bd |-> Apply(bd, (IF first = NULL \/ lastU = NULL THEN <<>>
                       ELSE << <<"next", lastU, b>> >>)
                      \o << <<"previous", b, lastU>>, <<"next", b, NULL>> >>)]

\* buf is on the Am queue: move it to the tail unless it has no successor.
MoveInAm(sc, bd, b, first, lastU, previous, next) ==
    IF next # NULL THEN
        IF previous # NULL THEN
            [sc |-> [sc EXCEPT !.lastUnpinned = b],
             bd |-> Apply(bd, << <<"next", previous, next>>, <<"previous", next, previous>>,
                                 <<"next", lastU, b>>, <<"previous", b, lastU>>,
                                 <<"next", b, NULL>> >>)]
        ELSE
            [sc |-> [sc EXCEPT !.firstUnpinned = next, !.lastUnpinned = b],
             bd |-> Apply(bd, << <<"previous", next, NULL>>,
                                 <<"next", lastU, b>>, <<"previous", b, lastU>>,
                                 <<"next", b, NULL>> >>)]
    ELSE [sc |-> sc, bd |-> bd]

\* A faulty MoveA1ToAm that appends buf to the Am queue and leaves it linked
\* on the A1 queue; C10 tells it from the code's.
MoveA1ToAmKeepsA1(sc, bd, b, first, lastU, previous, next) ==
    AppendToAm(sc, bd, b, first, lastU)

\* buf is on the A1 queue: unlink it there and append it to the Am queue.
MoveA1ToAm(sc, bd, b, first, lastU, previous, next) ==
    LET unlinked ==
            IF next # NULL THEN
                IF previous # NULL THEN
                    [sc |-> sc,
                     bd |-> Apply(bd, << <<"next", previous, next>>,
                                         <<"previous", next, previous>> >>)]
                ELSE
                    [sc |-> [sc EXCEPT !.a1Head = next],
                     bd |-> Apply(bd, << <<"previous", next, NULL>> >>)]
            ELSE IF previous = NULL THEN
                [sc |-> [sc EXCEPT !.a1Head = NULL, !.a1Tail = NULL], bd |-> bd]
            ELSE
                [sc |-> [sc EXCEPT !.a1Tail = previous],
                 bd |-> Apply(bd, << <<"next", previous, NULL>> >>)]
    IN  AppendToAm(unlinked.sc, unlinked.bd, b, first, lastU)

\* buf is on neither queue: append it to the A1 queue.
AppendToA1(sc, bd, b) ==
    IF sc.a1Head = NULL \/ sc.a1Tail = NULL THEN
        [sc |-> [sc EXCEPT !.a1Head = b, !.a1Tail = b],
         bd |-> Apply(bd, << <<"previous", b, NULL>>, <<"next", b, NULL>> >>)]
    ELSE
        [sc |-> [sc EXCEPT !.a1Tail = b],
         bd |-> Apply(bd, << <<"next", sc.a1Tail, b>>, <<"previous", b, sc.a1Tail>>,
                             <<"next", b, NULL>> >>)]

\* The POLICY_2Q branch of BufferUnpinned, run with the lock held.  first,
\* lastU, previous and next are the function's locals, read at its entry.
Unpinned2Q(sc, bd, b, first, lastU, previous, next) ==
    LET inAm == Search(bd, first, b, NBuffers)
        inA1 == Search(bd, sc.a1Head, b, NBuffers)
    IN  IF inAm = "found" THEN
            MoveInAm(sc, bd, b, first, lastU, previous, next) @@ [outcome |-> "done"]
        ELSE IF inAm = "loop" THEN [sc |-> sc, bd |-> bd, outcome |-> "hang"]
        ELSE IF inA1 = "found" THEN
            MoveA1ToAm(sc, bd, b, first, lastU, previous, next) @@ [outcome |-> "done"]
        ELSE IF inA1 = "loop" THEN [sc |-> sc, bd |-> bd, outcome |-> "hang"]
        ELSE AppendToA1(sc, bd, b) @@ [outcome |-> "done"]

\* The branch of BufferUnpinned for POLICY_LRU, POLICY_MRU and POLICY_CLOCK.
UnpinnedLruMruClock(sc, bd, b, first, lastU, previous, next) ==
    IF next # NULL THEN
        IF previous # NULL THEN
            [sc |-> [sc EXCEPT !.lastUnpinned = b],
             bd |-> Apply(bd, << <<"next", previous, next>>, <<"previous", next, previous>>,
                                 <<"next", lastU, b>>, <<"previous", b, lastU>>,
                                 <<"next", b, NULL>> >>),
             outcome |-> "done"]
        ELSE
            [sc |-> [sc EXCEPT !.firstUnpinned = next, !.lastUnpinned = b],
             bd |-> Apply(bd, << <<"previous", next, NULL>>,
                                 <<"next", lastU, b>>, <<"previous", b, lastU>>,
                                 <<"next", b, NULL>> >>),
             outcome |-> "done"]
    ELSE IF previous = NULL THEN
        [sc |-> [sc EXCEPT !.firstUnpinned = IF first = NULL THEN b ELSE @,
                           !.lastUnpinned = b],
         bd |-> Apply(bd, << <<"previous", b, lastU>>, <<"next", b, NULL>> >>
                          \o (IF lastU # NULL THEN << <<"next", lastU, b>> >> ELSE <<>>)),
         outcome |-> "done"]
    ELSE [sc |-> sc, bd |-> bd, outcome |-> "done"]

\* BufferUnpinned after LWLockConditionalAcquire succeeded.
BufferUnpinnedLocked(policy, sc, bd, b, first, lastU, previous, next) ==
    IF policy = POLICY_2Q
    THEN Unpinned2Q(sc, bd, b, first, lastU, previous, next)
    ELSE UnpinnedLruMruClock(sc, bd, b, first, lastU, previous, next)

\* --------------------------------------------------------- the strategy ring
\* GetAccessStrategy: NULL for BAS_NORMAL (NoStrategy stands for the NULL
\* pointer); otherwise the object is zero-filled but for btype and ring_size.
NoStrategy == [btype |-> BAS_NORMAL]

GetAccessStrategy(btype) ==
    IF btype = BAS_NORMAL THEN NoStrategy ELSE
    [btype |-> btype, ring_size |-> RingSize, current |-> 0,
     current_was_in_ring |-> FALSE,
     buffers |-> [i \in 0 .. (RingSize - 1) |-> InvalidBuffer]]

\* GetBufferFromRing: buf is the frame returned with its header locked, or NULL.
GetBufferFromRing(st, bd) ==
    LET cur == IF st.current + 1 >= st.ring_size THEN 0 ELSE st.current + 1
        st1 == [st EXCEPT !.current = cur]
        bufnum == st1.buffers[cur]
        b == bufnum - 1
    IN  IF bufnum = InvalidBuffer THEN
            [st |-> [st1 EXCEPT !.current_was_in_ring = FALSE], bd |-> bd, buf |-> NULL]
        ELSE IF bd[b].refcount = 0 /\ bd[b].usage_count <= 1 THEN
            [st |-> [st1 EXCEPT !.current_was_in_ring = TRUE],
             bd |-> LockBufHdr(bd, b), buf |-> b]
        ELSE
            [st |-> [st1 EXCEPT !.current_was_in_ring = FALSE], bd |-> bd, buf |-> NULL]

AddBufferToRing(st, b) ==
    [st EXCEPT !.buffers[st.current] = BufferDescriptorGetBuffer(b)]

\* if (strategy != NULL) AddBufferToRing(strategy, buf);
AddIfStrategy(st, b) == IF st.btype # BAS_NORMAL THEN AddBufferToRing(st, b) ELSE st

\* A faulty StrategyRejectBuffer that does not look at btype; C15 tells it
\* from the code's.
StrategyRejectAnyType(st, b) ==
    IF ~st.current_was_in_ring
       \/ st.buffers[st.current] # BufferDescriptorGetBuffer(b)
    THEN [st |-> st, result |-> FALSE]
    ELSE [st |-> [st EXCEPT !.buffers[st.current] = InvalidBuffer], result |-> TRUE]

\* StrategyRejectBuffer: <<the object afterwards, the result>>.
StrategyRejectBuffer(st, b) ==
    IF st.btype # BAS_BULKREAD THEN [st |-> st, result |-> FALSE]
    ELSE IF ~st.current_was_in_ring
            \/ st.buffers[st.current] # BufferDescriptorGetBuffer(b)
    THEN [st |-> st, result |-> FALSE]
    ELSE [st |-> [st EXCEPT !.buffers[st.current] = InvalidBuffer], result |-> TRUE]

\* ------------------------------------------------------- StrategyGetBuffer
\* The freelist loop: frames are popped from the head until one has
\* refcount = 0 and usage_count = 0; buf is NULL when the list drains.
RECURSIVE FreelistScan(_, _)
FreelistScan(sc, bd) ==
    IF sc.firstFreeBuffer >= 0 THEN
        LET b == sc.firstFreeBuffer
            sc1 == [sc EXCEPT !.firstFreeBuffer = bd[b].freeNext]
            bd1 == SetFreeNext(bd, b, FREENEXT_NOT_IN_LIST)
        IN  IF bd1[b].refcount = 0 /\ bd1[b].usage_count = 0
            THEN [sc |-> sc1, bd |-> LockBufHdr(bd1, b), buf |-> b]
            ELSE FreelistScan(sc1, bd1)
    ELSE [sc |-> sc, bd |-> bd, buf |-> NULL]

\* A faulty advance that leaves the clock hand where it is; C16 tells it from
\* the code's.
AdvanceHandStays(sc, n) == sc

\* A faulty advance that counts the first wrap of the hand and no later one;
\* C21 tells it from the code's.
AdvanceHandLate(sc, n) ==
    IF sc.nextVictimBuffer + 1 >= n
    THEN [sc EXCEPT !.nextVictimBuffer = 0,
                    !.completePasses = IF sc.completePasses = 0 THEN @ + 1 ELSE @]
    ELSE [sc EXCEPT !.nextVictimBuffer = @ + 1]

\* if (++nextVictimBuffer >= NBuffers) { nextVictimBuffer = 0; completePasses++; }
AdvanceHand(sc, n) ==
    IF sc.nextVictimBuffer + 1 >= n
    THEN [sc EXCEPT !.nextVictimBuffer = 0, !.completePasses = @ + 1]
    ELSE [sc EXCEPT !.nextVictimBuffer = @ + 1]

\* A faulty clock sweep that does not set trycounter back to NBuffers when it
\* lowers a usage_count; C20 tells it from the code's.
RECURSIVE ClockSweepNoReset(_, _, _)
ClockSweepNoReset(sc, bd, trycounter) ==
    LET b == sc.nextVictimBuffer
        sc1 == AdvanceHand(sc, Cardinality(DOMAIN bd))
    IN  IF bd[b].refcount = 0 THEN
            IF bd[b].usage_count > 0
            THEN ClockSweepNoReset(sc1, [bd EXCEPT ![b].usage_count = @ - 1], trycounter)
            ELSE [sc |-> sc1, bd |-> LockBufHdr(bd, b), buf |-> b]
        ELSE IF trycounter - 1 = 0 THEN [sc |-> sc1, bd |-> bd, buf |-> NULL]
        ELSE ClockSweepNoReset(sc1, bd, trycounter - 1)

\* The clock sweep; buf is NULL when trycounter reached zero.
RECURSIVE ClockSweep(_, _, _)
ClockSweep(sc, bd, trycounter) ==
    LET b == sc.nextVictimBuffer
        sc1 == AdvanceHand(sc, Cardinality(DOMAIN bd))
    IN  IF bd[b].refcount = 0 THEN
            IF bd[b].usage_count > 0
            THEN ClockSweep(sc1, [bd EXCEPT ![b].usage_count = @ - 1], NBuffers)
            ELSE [sc |-> sc1, bd |-> LockBufHdr(bd, b), buf |-> b]
        ELSE IF trycounter - 1 = 0 THEN [sc |-> sc1, bd |-> bd, buf |-> NULL]
        ELSE ClockSweep(sc1, bd, trycounter - 1)

\* The sizeA1 walk of the 2Q branch; the walk of a list that comes back to
\* itself never ends, which is reported as NULL.
RECURSIVE SizeOfList(_, _, _)
SizeOfList(bd, head, fuel) ==
    IF head = NULL THEN 0
    ELSE IF fuel = 0 THEN NULL
    ELSE LET rest == SizeOfList(bd, bd[head].next, fuel - 1)
         IN  IF rest = NULL THEN NULL ELSE rest + 1

\* The scans of the 2Q branch, which follow next and take no header lock:
\* the first frame with refcount = 0, NULL at the end of the list, and
\* Diverges for a walk that never ends.
RECURSIVE ScanNext(_, _, _)
ScanNext(bd, b, fuel) ==
    IF b = NULL THEN NULL
    ELSE IF bd[b].refcount = 0 THEN b
    ELSE IF fuel = 0 THEN Diverges
    ELSE ScanNext(bd, bd[b].next, fuel - 1)

\* Unlinking the victim from the A1 queue (which = "a1") or the Am queue.
Unlink2Q(sc, bd, b, which) ==
    LET next == bd[b].next
        previous == bd[b].previous
        cut ==
            IF next # NULL THEN
                IF previous # NULL THEN
                    [sc |-> sc,
                     bd |-> Apply(bd, << <<"next", previous, next>>,
                                         <<"previous", next, previous>> >>)]
                ELSE
                    [sc |-> IF which = "a1" THEN [sc EXCEPT !.a1Head = next]
                            ELSE [sc EXCEPT !.firstUnpinned = next],
                     bd |-> Apply(bd, << <<"previous", next, NULL>> >>)]
            ELSE IF previous = NULL THEN
                [sc |-> IF which = "a1" THEN [sc EXCEPT !.a1Head = NULL, !.a1Tail = NULL]
                        ELSE [sc EXCEPT !.firstUnpinned = NULL, !.lastUnpinned = NULL],
                 bd |-> bd]
            ELSE
                [sc |-> IF which = "a1" THEN [sc EXCEPT !.a1Tail = previous]
                        ELSE [sc EXCEPT !.lastUnpinned = previous],
                 bd |-> Apply(bd, << <<"next", previous, NULL>> >>)]
    IN  [sc |-> cut.sc,
         bd |-> Apply(cut.bd, << <<"next", b, NULL>>, <<"previous", b, NULL>> >>)]

\* thres = NBuffers / 2
Threshold == NBuffers \div 2

\* A faulty ScansA1 that takes A1 only when it is longer than the threshold;
\* C9 tells it from the code's.
ScansA1Above(sc, sizeA1) == sizeA1 > Threshold \/ sc.lastUnpinned = NULL

\* Which queue the 2Q branch scans.
ScansA1(sc, sizeA1) == sizeA1 >= Threshold \/ sc.lastUnpinned = NULL

\* The POLICY_2Q branch: buf is the victim, NULL for "no unpinned buffers
\* available", Diverges when one of its walks never ends.
Select2Q(sc, bd) ==
    LET sizeA1 == SizeOfList(bd, sc.a1Head, NBuffers)
        which == IF sizeA1 # NULL /\ ScansA1(sc, sizeA1) THEN "a1" ELSE "am"
        b == ScanNext(bd, IF which = "a1" THEN sc.a1Head ELSE sc.firstUnpinned, NBuffers)
    IN  IF sizeA1 = NULL \/ b = Diverges
        THEN [sc |-> sc, bd |-> bd, buf |-> Diverges, which |-> which]
        ELSE IF b = NULL THEN [sc |-> sc, bd |-> bd, buf |-> NULL, which |-> which]
        ELSE Unlink2Q(sc, bd, b, which) @@ [buf |-> b, which |-> which]

\* A faulty RingHit that reports the freelist lock as held; C6 tells it from
\* the code's.
\* A faulty RingHit that counts the call in numBufferAllocs; C23 tells it
\* from the code's.
RingHitCounts(sc, ring) ==
    [sc |-> [sc EXCEPT !.numBufferAllocs = @ + 1], bd |-> ring.bd, st |-> ring.st,
     buf |-> ring.buf, outcome |-> "ok", lock_held |-> FALSE, path |-> "ring",
     signalled |-> NULL]

RingHitHeld(sc, ring) ==
    [sc |-> sc, bd |-> ring.bd, st |-> ring.st, buf |-> ring.buf,
     outcome |-> "ok", lock_held |-> TRUE, path |-> "ring", signalled |-> NULL]

\* The return on a ring hit: *lock_held = false; return buf;
RingHit(sc, ring) ==
    [sc |-> sc, bd |-> ring.bd, st |-> ring.st, buf |-> ring.buf,
     outcome |-> "ok", lock_held |-> FALSE, path |-> "ring", signalled |-> NULL]

\* A faulty TakeLatch that leaves the latch in place after reading it; C11
\* and C19 tell it from the code's.
TakeLatchKeeps(sc) == sc

\* if (bgwriterLatch) StrategyControl->bgwriterLatch = NULL;
TakeLatch(sc) ==
    IF sc.bgwriterLatch # NULL THEN [sc EXCEPT !.bgwriterLatch = NULL] ELSE sc

\* What StrategyGetBuffer has done when it returns, fails or reaches the queue
\* walk of POLICY_LRU / POLICY_MRU (outcome "walk", buf the walk's start).
GetBufferResult(policy, sc, bd, st) ==
    LET ring == IF st.btype # BAS_NORMAL THEN GetBufferFromRing(st, bd)
                ELSE [st |-> st, bd |-> bd, buf |-> NULL]
        sc1 == [sc EXCEPT !.numBufferAllocs = @ + 1]
        bgwriterLatch == sc1.bgwriterLatch
        sc2 == TakeLatch(sc1)
        fl == FreelistScan(sc2, ring.bd)
        global == [st |-> ring.st, lock_held |-> TRUE, signalled |-> bgwriterLatch]
        clock == ClockSweep(fl.sc, fl.bd, NBuffers)
        twoq == Select2Q(fl.sc, fl.bd)
    IN  IF ring.buf # NULL THEN RingHit(sc, ring)
        ELSE IF fl.buf # NULL THEN
            [global EXCEPT !.st = AddIfStrategy(ring.st, fl.buf)]
            @@ [sc |-> fl.sc, bd |-> fl.bd, buf |-> fl.buf, outcome |-> "ok",
                path |-> "freelist"]
        ELSE IF policy = POLICY_CLOCK THEN
            IF clock.buf # NULL THEN
                [global EXCEPT !.st = AddIfStrategy(ring.st, clock.buf)]
                @@ [sc |-> clock.sc, bd |-> clock.bd, buf |-> clock.buf, outcome |-> "ok",
                    path |-> "clock"]
            ELSE
                global @@ [sc |-> clock.sc, bd |-> clock.bd, buf |-> NULL,
                           outcome |-> "NoUnpinnedBuffers", path |-> "clock"]
        ELSE IF policy = POLICY_LRU THEN
            global @@ [sc |-> fl.sc, bd |-> fl.bd, buf |-> fl.sc.firstUnpinned,
                       outcome |-> "walk", path |-> "lru"]
        ELSE IF policy = POLICY_MRU THEN
            global @@ [sc |-> fl.sc, bd |-> fl.bd, buf |-> fl.sc.lastUnpinned,
                       outcome |-> "walk", path |-> "mru"]
        ELSE
            global @@ [sc |-> twoq.sc, bd |-> twoq.bd, path |-> twoq.which,
                       buf |-> IF twoq.buf = Diverges THEN NULL ELSE twoq.buf,
                       outcome |-> IF twoq.buf = Diverges THEN "hang"
                                   ELSE IF twoq.buf = NULL THEN "NoUnpinnedBuffers"
                                   ELSE "ok"]

\* ------------------------------------------------------------------ state
\* The frames on the freelist, from its head.
RECURSIVE FreeListFrom(_, _, _)
FreeListFrom(bd, b, fuel) ==
    IF b < 0 \/ fuel = 0 THEN <<>> ELSE <<b>> \o FreeListFrom(bd, bd[b].freeNext, fuel - 1)

FreeList == FreeListFrom(BufferDescriptors, StrategyControl.firstFreeBuffer, NBuffers)

\* What the last operation was and gave; calls is the number of
\* StrategyGetBuffer calls that went past the ring (line 148) since
\* StrategyInitialize or the last StrategySyncStart that reset the counter,
\* popped the number of frames the call took off the freelist.
NewLast(op, b, calls) ==
    [op |-> op, buf |-> b, outcome |-> "done", lock_held |-> FALSE, path |-> "none",
     signalled |-> NULL, strategy |-> FALSE, freelist_empty |-> FALSE,
     passes |-> NULL, allocs |-> NULL, wraps |-> 0, swept |-> 0, calls |-> calls,
     popped |-> 0]

LastOf(op, b) == NewLast(op, b, last.calls)

\* By how much the usage_counts of the frames below n went down from bd to bd2.
RECURSIVE Swept(_, _, _)
Swept(bd, bd2, n) ==
    IF n = 0 THEN 0
    ELSE bd[n - 1].usage_count - bd2[n - 1].usage_count + Swept(bd, bd2, n - 1)

\* StrategyInitialize (found = false) over the frames threaded by the pool's
\* set-up: frame i points to i + 1, the last one ends the list.
InitControl(n) ==
    [nextVictimBuffer |-> 0, firstFreeBuffer |-> 0, lastFreeBuffer |-> n - 1,
     completePasses |-> 0, numBufferAllocs |-> 0, bgwriterLatch |-> NULL,
     lastUnpinned |-> NULL, firstUnpinned |-> NULL, a1Head |-> NULL, a1Tail |-> NULL]

InitDescriptors(n) ==
    [i \in 0 .. (n - 1) |->
        [refcount |-> 0, usage_count |-> 0,
         freeNext |-> IF i = n - 1 THEN FREENEXT_END_OF_LIST ELSE i + 1,
         previous |-> NULL, next |-> NULL, buf_hdr_lock |-> FALSE]]

\* The backend processes, and one that is in none of the functions.
Procs == 1 .. NumProcs

IdleProc ==
    [pc |-> "idle", holds |-> FALSE, b |-> NULL, first |-> NULL, lastU |-> NULL,
     previous |-> NULL, next |-> NULL, latch |-> NULL, alloc |-> 0, pinned |-> {}]

InitShared(n) ==
    /\ StrategyControl = InitControl(n)
    /\ BufferDescriptors = InitDescriptors(n)
    /\ BufFreelistLock = FALSE
    /\ pc = "idle"
    /\ buf = NULL
    /\ last = NewLast("other", NULL, 0)
    /\ unpinOrder = <<>>
    /\ procs = [p \in Procs |-> IdleProc]
    /\ signals = <<>>

Init ==
    /\ BufferReplacementPolicy \in Policies
    /\ strategy = NoStrategy
    /\ InitShared(PoolSize)

\* The caller of StrategyGetBuffer holds the returned frame's header.
Pending == last.op = "StrategyGetBuffer" /\ last.outcome = "ok"

\* No operation is in progress and the process has neither died nor hung.
Idle == pc = "idle" /\ ~Pending /\ last.outcome \notin {"crash", "hang"}

\* ----------------------------------------------------------------- actions
\* StrategyGetBuffer(st, &lock_held), up to its return, its error or the start
\* of the LRU / MRU walk.  elog(ERROR) leaves the function and the error
\* recovery releases the freelist lock; a walk that never ends keeps it.
StrategyGetBuffer(st) ==
    /\ Idle
    /\ LET r == GetBufferResult(BufferReplacementPolicy, StrategyControl,
                                BufferDescriptors, st)
       IN  /\ StrategyControl' = r.sc
           /\ BufferDescriptors' = r.bd
           /\ strategy' = IF st.btype # BAS_NORMAL THEN r.st ELSE strategy
           /\ BufFreelistLock' = (r.lock_held /\ r.outcome # "NoUnpinnedBuffers")
           /\ pc' = IF r.outcome = "walk" THEN "lock" ELSE "idle"
           /\ buf' = IF r.outcome = "walk" THEN r.buf ELSE NULL
           /\ last' = [LastOf("StrategyGetBuffer", IF r.outcome = "walk" THEN NULL ELSE r.buf)
                         EXCEPT !.outcome = r.outcome, !.lock_held = r.lock_held,
                                !.path = r.path, !.signalled = r.signalled,
                                !.strategy = (st.btype # BAS_NORMAL),
                                !.freelist_empty = (StrategyControl.firstFreeBuffer < 0),
                                !.wraps = r.sc.completePasses - StrategyControl.completePasses,
                                !.swept = Swept(BufferDescriptors, r.bd, NBuffers),
                                !.calls = IF r.path = "ring" THEN @ ELSE @ + 1,
                                !.popped = Len(FreeList) -
                                           Len(FreeListFrom(r.bd, r.sc.firstFreeBuffer,
                                                            NBuffers))]
    /\ UNCHANGED <<procs, signals, BufferReplacementPolicy, unpinOrder>>

\* The loop test and LockBufHdr of the LRU / MRU walk.  When the walk has
\* reached NULL the code runs UnlockBufHdr(NULL) before elog(ERROR): a store
\* through a null pointer, after which the process either is killed or goes
\* on to raise the error.
WalkLock ==
    /\ pc = "lock"
    /\ IF buf = NULL THEN
           /\ \E o \in {"crash", "NoUnpinnedBuffers"} :
                 /\ last' = [last EXCEPT !.outcome = o]
                 /\ BufFreelistLock' = (o = "crash")
           /\ pc' = "idle"
           /\ UNCHANGED <<BufferDescriptors, buf>>
       ELSE
           /\ ~BufferDescriptors[buf].buf_hdr_lock
           /\ BufferDescriptors' = LockBufHdr(BufferDescriptors, buf)
           /\ pc' = "check"
           /\ UNCHANGED <<BufFreelistLock, buf, last>>
    /\ UNCHANGED <<procs, signals, BufferReplacementPolicy, StrategyControl, strategy, unpinOrder>>

\* Where the walk goes from a pinned frame.
WalkSuccessor(policy, bd, b) ==
    IF policy = POLICY_LRU THEN bd[b].next ELSE bd[b].previous

\* The refcount test of the LRU / MRU walk: return the frame with its header
\* locked, or unlock it and move on.
WalkCheck ==
    /\ pc = "check"
    /\ IF BufferDescriptors[buf].refcount = 0 THEN
           /\ last' = [last EXCEPT !.outcome = "ok", !.buf = buf]
           /\ pc' = "idle"
           /\ buf' = NULL
           /\ UNCHANGED BufferDescriptors
       ELSE
           /\ BufferDescriptors' = UnlockBufHdr(BufferDescriptors, buf)
           /\ buf' = WalkSuccessor(BufferReplacementPolicy, BufferDescriptors, buf)
           /\ pc' = "lock"
           /\ UNCHANGED last
    /\ UNCHANGED <<procs, signals, BufferReplacementPolicy, StrategyControl, BufFreelistLock, strategy,
                   unpinOrder>>

\* The caller of StrategyGetBuffer: it pins the frame it was given, drops the
\* header lock and then the freelist lock if lock_held, and leaves the frame
\* with usage_count 1.  A caller with an access strategy keeps the frame in
\* mind, for it may yet ask StrategyRejectBuffer about it.
PinVictim(bd, b) ==
    [bd EXCEPT ![b].refcount = @ + 1, ![b].usage_count = 1, ![b].buf_hdr_lock = FALSE]

BufferAlloc ==
    /\ pc = "idle"
    /\ Pending
    /\ BufferDescriptors' = PinVictim(BufferDescriptors, last.buf)
    /\ BufFreelistLock' = FALSE
    /\ last' = IF last.strategy
               THEN [LastOf("BufferAlloc", last.buf) EXCEPT !.strategy = TRUE,
                                                            !.path = last.path]
               ELSE LastOf("other", NULL)
    /\ UNCHANGED <<procs, signals, BufferReplacementPolicy, StrategyControl, strategy, pc, buf, unpinOrder>>

\* A pin taken on a frame found in the pool.
PinBuffer(b) ==
    /\ Idle
    /\ BufferDescriptors[b].refcount < MaxPin
    /\ BufferDescriptors' = [BufferDescriptors EXCEPT ![b].refcount = @ + 1]
    /\ last' = LastOf("other", NULL)
    /\ UNCHANGED <<procs, signals, BufferReplacementPolicy, StrategyControl, BufFreelistLock, strategy,
                   pc, buf, unpinOrder>>

\* An access by a holder of a pin, which raises the frame's usage_count.
AccessBuffer(b) ==
    /\ Idle
    /\ BufferDescriptors[b].refcount > 0
    /\ BufferDescriptors[b].usage_count < MaxUsage
    /\ BufferDescriptors' = [BufferDescriptors EXCEPT ![b].usage_count = @ + 1]
    /\ last' = LastOf("other", NULL)
    /\ UNCHANGED <<procs, signals, BufferReplacementPolicy, StrategyControl, BufFreelistLock, strategy,
                   pc, buf, unpinOrder>>

\* The ghost order of unpins: b becomes the newest.
Touch(order, b) == SelectSeq(order, LAMBDA x : x # b) \o <<b>>

\* BufferUnpinned(bufIndex).  The locals are read first; if the freelist lock
\* is taken the function returns at once; otherwise it runs its branch and
\* releases the lock, unless one of its walks never ends.
BufferUnpinned(bd, b) ==
    LET r == BufferUnpinnedLocked(BufferReplacementPolicy, StrategyControl, bd, b,
                                  StrategyControl.firstUnpinned,
                                  StrategyControl.lastUnpinned,
                                  bd[b].previous, bd[b].next)
    IN  IF BufFreelistLock THEN
            /\ BufferDescriptors' = bd
            /\ last' = LastOf("other", NULL)
            /\ UNCHANGED <<StrategyControl, BufFreelistLock, unpinOrder>>
        ELSE
            /\ StrategyControl' = r.sc
            /\ BufferDescriptors' = r.bd
            /\ BufFreelistLock' = (r.outcome = "hang")
            /\ last' = [LastOf("BufferUnpinned", b) EXCEPT !.outcome = r.outcome]
            /\ unpinOrder' = IF BufferReplacementPolicy \in {POLICY_LRU, POLICY_MRU}
                             THEN Touch(unpinOrder, b) ELSE unpinOrder

\* A pin is dropped; the drop of the last pin calls BufferUnpinned.
DropPin(b) ==
    LET bd == [BufferDescriptors EXCEPT ![b].refcount = @ - 1]
    IN  IF bd[b].refcount = 0 THEN BufferUnpinned(bd, b)
        ELSE /\ BufferDescriptors' = bd
             /\ last' = LastOf("other", NULL)
             /\ UNCHANGED <<StrategyControl, BufFreelistLock, unpinOrder>>

UnpinBuffer(b) ==
    /\ Idle
    /\ BufferDescriptors[b].refcount > 0
    /\ DropPin(b)
    /\ UNCHANGED <<procs, signals, BufferReplacementPolicy, strategy, pc, buf>>

\* The caller found the frame it was given dirty and asks StrategyRejectBuffer;
\* on true it drops its pin and will ask for another victim, on false it
\* keeps the frame.
RejectBuffer ==
    /\ Idle
    /\ last.op = "BufferAlloc"
    /\ LET r == StrategyRejectBuffer(strategy, last.buf)
       IN  /\ strategy' = r.st
           /\ IF r.result THEN DropPin(last.buf)
              ELSE /\ last' = LastOf("other", NULL)
                   /\ UNCHANGED <<StrategyControl, BufferDescriptors, BufFreelistLock,
                                  unpinOrder>>
    /\ UNCHANGED <<procs, signals, BufferReplacementPolicy, pc, buf>>

\* A faulty StrategyFreeBuffer that links the frame in without looking at its
\* freeNext; C13 tells it from the code's.
FreeBufferAlways(sc, bd, b) ==
    [sc |-> [sc EXCEPT !.lastFreeBuffer = IF sc.firstFreeBuffer < 0 THEN b ELSE @,
                       !.firstFreeBuffer = b],
     bd |-> SetFreeNext(bd, b, sc.firstFreeBuffer)]

\* StrategyFreeBuffer(buf), as a function of the shared state.
\* A faulty StrategyFreeBuffer that leaves lastFreeBuffer alone when it
\* pushes onto an empty freelist; C24 tells it from the code's.
FreeBufferKeepsTail(sc, bd, b) ==
    IF bd[b].freeNext = FREENEXT_NOT_IN_LIST THEN
        [sc |-> [sc EXCEPT !.firstFreeBuffer = b],
         bd |-> SetFreeNext(bd, b, sc.firstFreeBuffer)]
    ELSE [sc |-> sc, bd |-> bd]

FreeBufferResult(sc, bd, b) ==
    IF bd[b].freeNext = FREENEXT_NOT_IN_LIST THEN
        [sc |-> [sc EXCEPT !.lastFreeBuffer = IF sc.firstFreeBuffer < 0 THEN b ELSE @,
                           !.firstFreeBuffer = b],
         bd |-> SetFreeNext(bd, b, sc.firstFreeBuffer)]
    ELSE [sc |-> sc, bd |-> bd]

StrategyFreeBuffer(b) ==
    /\ Idle
    /\ LET r == FreeBufferResult(StrategyControl, BufferDescriptors, b)
       IN  /\ StrategyControl' = r.sc
           /\ BufferDescriptors' = r.bd
    /\ last' = LastOf("other", NULL)
    /\ UNCHANGED <<procs, signals, BufferReplacementPolicy, BufFreelistLock, strategy, pc, buf, unpinOrder>>

\* A faulty StrategySyncStart that reports numBufferAllocs and does not reset
\* it; C12 tells it from the code's.
StrategySyncStartKeeps(complete_passes, num_buf_alloc) ==
    /\ Idle
    /\ last' = [LastOf("StrategySyncStart", StrategyControl.nextVictimBuffer)
                  EXCEPT !.passes = IF complete_passes THEN StrategyControl.completePasses
                                    ELSE NULL,
                         !.allocs = IF num_buf_alloc THEN StrategyControl.numBufferAllocs
                                    ELSE NULL,
                         !.calls = IF num_buf_alloc THEN 0 ELSE @]
    /\ UNCHANGED <<procs, signals, BufferReplacementPolicy, StrategyControl, BufferDescriptors,
                   BufFreelistLock, strategy, pc, buf, unpinOrder>>

\* StrategySyncStart(complete_passes, num_buf_alloc); the arguments say
\* whether the pointers are non-NULL.
StrategySyncStart(complete_passes, num_buf_alloc) ==
    /\ Idle
    /\ last' = [LastOf("StrategySyncStart", StrategyControl.nextVictimBuffer)
                  EXCEPT !.passes = IF complete_passes THEN StrategyControl.completePasses
                                    ELSE NULL,
                         !.allocs = IF num_buf_alloc THEN StrategyControl.numBufferAllocs
                                    ELSE NULL,
                         !.calls = IF num_buf_alloc THEN 0 ELSE @]
    /\ StrategyControl' = IF num_buf_alloc
                          THEN [StrategyControl EXCEPT !.numBufferAllocs = 0]
                          ELSE StrategyControl
    /\ UNCHANGED <<procs, signals, BufferReplacementPolicy, BufferDescriptors, BufFreelistLock, strategy,
                   pc, buf, unpinOrder>>

\* StrategyNotifyBgWriter(bgwriterLatch)
StrategyNotifyBgWriter(bgwriterLatch) ==
    /\ Idle
    /\ StrategyControl' = [StrategyControl EXCEPT !.bgwriterLatch = bgwriterLatch]
    /\ last' = LastOf("StrategyNotifyBgWriter", NULL)
    /\ UNCHANGED <<procs, signals, BufferReplacementPolicy, BufferDescriptors, BufFreelistLock, strategy,
                   pc, buf, unpinOrder>>

\* ------------------------------------------------------------ specification
\* The frames that hold a page: those StrategyGetBuffer has handed out and
\* nobody has put back on the freelist.  Only they are found in the pool.
InUse(b) == BufferDescriptors[b].freeNext = FREENEXT_NOT_IN_LIST

\* The allocation counter is below n: the calls of StrategyGetBuffer are
\* made while it is.
AllocsBelow(n) == StrategyControl.numBufferAllocs < n

\* The clock hand has wrapped fewer than n times.
PassesBelow(n) == StrategyControl.completePasses < n

\* ------------------------------------------------ several backend processes
\* The functions again, for backends that run side by side: a step is what a
\* process does between two points where another process can come in, which
\* are the places where it does not hold BufFreelistLock.  pc, buf, strategy
\* and unpinOrder are not used.
Shared == <<BufferReplacementPolicy, strategy, pc, buf, unpinOrder>>

\* Process p drops its pin on frame b, the last one, and enters
\* BufferUnpinned(b): the locals first, last, previous and next are set from
\* the shared state before the lock is asked for (lines 433-439).
UnpinEnter(p, b) ==
    /\ procs[p].pc = "idle"
    /\ b \in procs[p].pinned
    /\ BufferDescriptors' = [BufferDescriptors EXCEPT ![b].refcount = @ - 1]
    /\ procs' = [procs EXCEPT ![p] = [@ EXCEPT !.pc = "unpinned", !.b = b,
                                        !.first = StrategyControl.firstUnpinned,
                                        !.lastU = StrategyControl.lastUnpinned,
                                        !.previous = BufferDescriptors[b].previous,
                                        !.next = BufferDescriptors[b].next,
                                        !.pinned = @ \ {b}]]
    /\ last' = LastOf("other", NULL)
    /\ UNCHANGED <<Shared, StrategyControl, BufFreelistLock, signals>>

\* A faulty BufferUnpinned that goes on without the lock when
\* LWLockConditionalAcquire fails; C17 tells it from the code's.
UnpinSkipGoesOn(p) ==
    LET me == procs[p]
        r == BufferUnpinnedLocked(BufferReplacementPolicy, StrategyControl,
                                  BufferDescriptors, me.b,
                                  me.first, me.lastU, me.previous, me.next)
    IN  /\ StrategyControl' = r.sc
        /\ BufferDescriptors' = r.bd
        /\ procs' = [procs EXCEPT ![p] = [IdleProc EXCEPT !.pinned = me.pinned]]
        /\ last' = [LastOf("BufferUnpinned", me.b) EXCEPT !.outcome = "skipped"]
        /\ UNCHANGED BufFreelistLock

\* if (!LWLockConditionalAcquire(BufFreelistLock, LW_EXCLUSIVE)) return;
UnpinSkip(p) ==
    /\ procs' = [procs EXCEPT ![p] = [IdleProc EXCEPT !.pinned = procs[p].pinned]]
    /\ last' = [LastOf("BufferUnpinned", procs[p].b) EXCEPT !.outcome = "skipped"]
    /\ UNCHANGED <<StrategyControl, BufferDescriptors, BufFreelistLock>>

\* BufferUnpinned from LWLockConditionalAcquire on (lines 441-585): with the
\* lock taken the function returns at once; otherwise it takes the lock, runs
\* the branch of the policy on the locals it has and releases the lock, unless
\* a walk of its branch never ends.
UnpinTryLock(p) ==
    LET me == procs[p]
        r == BufferUnpinnedLocked(BufferReplacementPolicy, StrategyControl,
                                  BufferDescriptors, me.b,
                                  me.first, me.lastU, me.previous, me.next)
    IN  /\ me.pc = "unpinned"
        /\ IF BufFreelistLock THEN UnpinSkip(p)
           ELSE /\ StrategyControl' = r.sc
                /\ BufferDescriptors' = r.bd
                /\ BufFreelistLock' = (r.outcome = "hang")
                /\ procs' = [procs EXCEPT ![p] =
                                IF r.outcome = "hang"
                                THEN [me EXCEPT !.pc = "hang", !.holds = TRUE]
                                ELSE [IdleProc EXCEPT !.pinned = me.pinned]]
                /\ last' = [LastOf("BufferUnpinned", me.b) EXCEPT !.outcome = r.outcome]
        /\ UNCHANGED <<Shared, signals>>

\* StrategyGetBuffer(NULL) from LWLockAcquire to the test of bgwriterLatch
\* (lines 154-173): the allocation is counted; a latch that is set is taken
\* and the lock released for the call of SetLatch.
GetBufferLockAt(p, at) ==
    LET sc1 == [StrategyControl EXCEPT !.numBufferAllocs = @ + 1]
        bgwriterLatch == sc1.bgwriterLatch
    IN  /\ procs[p].pc = at
        /\ ~BufFreelistLock
        /\ StrategyControl' = TakeLatch(sc1)
        /\ BufFreelistLock' = (bgwriterLatch = NULL)
        /\ procs' = [procs EXCEPT ![p] =
                        [@ EXCEPT !.pc = IF bgwriterLatch = NULL THEN "scan" ELSE "setlatch",
                                  !.holds = (bgwriterLatch = NULL),
                                  !.latch = IF bgwriterLatch = NULL THEN NULL
                                            ELSE Len(signals),
                                  !.alloc = sc1.numBufferAllocs]]
        /\ last' = [LastOf("other", NULL) EXCEPT !.calls = @ + 1]
        /\ UNCHANGED <<Shared, BufferDescriptors, signals>>

GetBufferLock(p) == GetBufferLockAt(p, "idle")

\* The same with the call and the lock two steps: a backend has called
\* StrategyGetBuffer without a strategy and stands at LWLockAcquire (line 154)
\* until the lock is free.
GetBufferCalled(p) ==
    /\ procs[p].pc = "idle"
    /\ procs' = [procs EXCEPT ![p] = [@ EXCEPT !.pc = "acquire"]]
    /\ last' = LastOf("other", NULL)
    /\ UNCHANGED <<Shared, StrategyControl, BufferDescriptors, BufFreelistLock, signals>>

GetBufferAcquire(p) == GetBufferLockAt(p, "acquire")

\* A backend has called StrategyFreeBuffer(b) and stands at LWLockAcquire
\* (line 595).
FreeBufferCalled(p, b) ==
    /\ procs[p].pc = "idle"
    /\ procs' = [procs EXCEPT ![p] = [@ EXCEPT !.pc = "free", !.b = b]]
    /\ last' = LastOf("other", NULL)
    /\ UNCHANGED <<Shared, StrategyControl, BufferDescriptors, BufFreelistLock, signals>>

\* StrategyFreeBuffer from the lock to its release, lines 595-609.
FreeBufferLocked(p) ==
    LET r == FreeBufferResult(StrategyControl, BufferDescriptors, procs[p].b)
    IN  /\ procs[p].pc = "free"
        /\ ~BufFreelistLock
        /\ StrategyControl' = r.sc
        /\ BufferDescriptors' = r.bd
        /\ procs' = [procs EXCEPT ![p] = [IdleProc EXCEPT !.pinned = procs[p].pinned]]
        /\ last' = LastOf("StrategyFreeBuffer", procs[p].b)
        /\ UNCHANGED <<Shared, BufFreelistLock, signals>>

\* StrategySyncStart called by the background writer, lines 626-638, once the
\* lock is free.
SyncStartLocked(num_buf_alloc) ==
    /\ ~BufFreelistLock
    /\ StrategyControl' = IF num_buf_alloc
                          THEN [StrategyControl EXCEPT !.numBufferAllocs = 0]
                          ELSE StrategyControl
    /\ last' = [LastOf("StrategySyncStart", StrategyControl.nextVictimBuffer)
                  EXCEPT !.allocs = IF num_buf_alloc THEN StrategyControl.numBufferAllocs
                                    ELSE NULL,
                         !.calls = IF num_buf_alloc THEN 0 ELSE @]
    /\ UNCHANGED <<Shared, BufferDescriptors, BufFreelistLock, procs, signals>>

\* SetLatch(bgwriterLatch), line 174.
GetBufferSetLatch(p) ==
    /\ procs[p].pc = "setlatch"
    /\ signals' = [signals EXCEPT ![procs[p].latch] = @ + 1]
    /\ procs' = [procs EXCEPT ![p].pc = "reacquire"]
    /\ last' = [LastOf("SetLatch", NULL) EXCEPT !.lock_held = procs[p].holds]
    /\ UNCHANGED <<Shared, StrategyControl, BufferDescriptors, BufFreelistLock>>

\* LWLockAcquire(BufFreelistLock, LW_EXCLUSIVE), line 175.
GetBufferReacquire(p) ==
    /\ procs[p].pc = "reacquire"
    /\ ~BufFreelistLock
    /\ BufFreelistLock' = TRUE
    /\ procs' = [procs EXCEPT ![p].pc = "scan", ![p].holds = TRUE]
    /\ last' = LastOf("other", NULL)
    /\ UNCHANGED <<Shared, StrategyControl, BufferDescriptors, signals>>

\* The walk of POLICY_LRU (from firstUnpinned along next) and POLICY_MRU
\* (from lastUnpinned along previous), lines 272-284 and 299-310, run in one
\* piece: the first frame with refcount = 0, NULL when the walk comes to
\* NULL, Diverges when it never does.
RECURSIVE QueueWalk(_, _, _, _)
QueueWalk(policy, bd, b, fuel) ==
    IF b = NULL THEN NULL
    ELSE IF fuel = 0 THEN Diverges
    ELSE IF bd[b].refcount = 0 THEN b
    ELSE QueueWalk(policy, bd, WalkSuccessor(policy, bd, b), fuel - 1)

\* The freelist loop and the branch of the policy, lines 184-425, run with
\* the lock held.
GlobalVictim(policy, sc, bd) ==
    LET fl == FreelistScan(sc, bd)
        n == Cardinality(DOMAIN bd)
    IN  IF fl.buf # NULL THEN fl
        ELSE IF policy = POLICY_CLOCK THEN ClockSweep(fl.sc, fl.bd, n)
        ELSE IF policy = POLICY_2Q THEN
            LET twoq == Select2Q(fl.sc, fl.bd)
            IN  [sc |-> twoq.sc, bd |-> twoq.bd, buf |-> twoq.buf]
        ELSE
            LET b == QueueWalk(policy, fl.bd,
                               IF policy = POLICY_LRU THEN fl.sc.firstUnpinned
                               ELSE fl.sc.lastUnpinned, n)
            IN  [sc |-> fl.sc, buf |-> b,
                 bd |-> IF b \in DOMAIN bd THEN LockBufHdr(fl.bd, b) ELSE fl.bd]

\* How a scan that gave buf ends: a frame, a walk without end, or the error;
\* under POLICY_LRU and POLICY_MRU the error comes after UnlockBufHdr(NULL)
\* (lines 293 and 319), which may kill the process instead.
ScanOutcomes(policy, b) ==
    IF b = Diverges THEN {"hang"}
    ELSE IF b # NULL THEN {"ok"}
    ELSE IF policy \in {POLICY_LRU, POLICY_MRU} THEN {"crash", "NoUnpinnedBuffers"}
    ELSE {"NoUnpinnedBuffers"}

\* StrategyGetBuffer from the freelist loop to its return or its error; the
\* error gives the lock up.
GetBufferScan(p) ==
    LET r == GlobalVictim(BufferReplacementPolicy, StrategyControl, BufferDescriptors)
    IN  /\ procs[p].pc = "scan"
        /\ StrategyControl' = r.sc
        /\ BufferDescriptors' = r.bd
        /\ \E o \in ScanOutcomes(BufferReplacementPolicy, r.buf) :
              /\ BufFreelistLock' = (o # "NoUnpinnedBuffers")
              /\ procs' = [procs EXCEPT ![p] =
                              IF o = "NoUnpinnedBuffers"
                              THEN [IdleProc EXCEPT !.pinned = procs[p].pinned]
                              ELSE IF o = "ok" THEN [@ EXCEPT !.pc = "pin", !.b = r.buf]
                              ELSE [@ EXCEPT !.pc = o]]
              /\ last' = [LastOf("StrategyGetBuffer", IF o = "ok" THEN r.buf ELSE NULL)
                            EXCEPT !.outcome = o, !.lock_held = TRUE]
        /\ UNCHANGED <<Shared, signals>>

\* The caller pins the frame it was given and releases the header lock and
\* the freelist lock.
GetBufferPin(p) ==
    /\ procs[p].pc = "pin"
    /\ BufferDescriptors' = PinVictim(BufferDescriptors, procs[p].b)
    /\ BufFreelistLock' = FALSE
    /\ procs' = [procs EXCEPT ![p] = [IdleProc EXCEPT !.pinned = procs[p].pinned \cup {procs[p].b}]]
    /\ last' = LastOf("other", NULL)
    /\ UNCHANGED <<Shared, StrategyControl, signals>>

\* StrategyNotifyBgWriter(bgwriterLatch), called by the bgwriter, which waits
\* for the lock.
NotifyBgWriter(bgwriterLatch) ==
    /\ ~BufFreelistLock
    /\ StrategyControl' = [StrategyControl EXCEPT !.bgwriterLatch = bgwriterLatch]
    /\ signals' = IF bgwriterLatch # NULL THEN Append(signals, 0) ELSE signals
    /\ last' = LastOf("StrategyNotifyBgWriter", NULL)
    /\ UNCHANGED <<Shared, BufferDescriptors, BufFreelistLock, procs>>

\* One operation at a time, no access strategy.

Next ==
    \/ PassesBelow(MaxPasses) /\ AllocsBelow(MaxAllocs) /\ StrategyGetBuffer(NoStrategy)
    \/ WalkLock
    \/ WalkCheck
    \/ BufferAlloc
    \/ \E b \in Frames : InUse(b) /\ PinBuffer(b)
    \/ \E b \in Frames : AccessBuffer(b)
    \/ \E b \in Frames : UnpinBuffer(b)
    \/ \E b \in Frames : /\ BufferDescriptors[b].refcount = 0
                         /\ Len(FreeList) < MaxFreeList
                         /\ StrategyFreeBuffer(b)
    \/ \E cp \in BOOLEAN, na \in BOOLEAN : StrategySyncStart(cp, na)
    \/ \E l \in Latches \cup {NULL} : StrategyNotifyBgWriter(l)

Spec == Init /\ [][Next]_vars

\* POLICY_2Q alone, with the operations that bear on the victim queues,
\* and the statistics read that resets numBufferAllocs.
Init2Q ==
    /\ BufferReplacementPolicy = POLICY_2Q
    /\ strategy = NoStrategy
    /\ InitShared(PoolSize)

Next2Q ==
    \/ PassesBelow(MaxPasses) /\ AllocsBelow(MaxAllocs) /\ StrategyGetBuffer(NoStrategy)
    \/ BufferAlloc
    \/ \E b \in Frames : InUse(b) /\ PinBuffer(b)
    \/ \E b \in Frames : UnpinBuffer(b)
    \/ StrategySyncStart(FALSE, TRUE)

Spec2Q == Init2Q /\ [][Next2Q]_vars

\* POLICY_LRU or POLICY_MRU, with the operations that bear on the victim
\* queue.  A process that is inside the queue walk keeps running, which is
\* weak fairness of the walk's two steps.
InitWalk ==
    /\ BufferReplacementPolicy \in {POLICY_LRU, POLICY_MRU}
    /\ strategy = NoStrategy
    /\ InitShared(WalkPoolSize)

NextWalk ==
    \/ PassesBelow(MaxPasses) /\ AllocsBelow(MaxAllocs) /\ StrategyGetBuffer(NoStrategy)
    \/ WalkLock
    \/ WalkCheck
    \/ BufferAlloc
    \/ \E b \in Frames : InUse(b) /\ PinBuffer(b)
    \/ \E b \in Frames : UnpinBuffer(b)
    \/ StrategySyncStart(FALSE, TRUE)

FairSpec == InitWalk /\ [][NextWalk]_vars /\ WF_vars(WalkLock) /\ WF_vars(WalkCheck)

\* Any policy, every call made with the caller's bulk-read access strategy;
\* frames are pinned by the caller alone, and nobody reads the statistics.
InitRing ==
    /\ BufferReplacementPolicy \in Policies
    /\ strategy = GetAccessStrategy(BAS_BULKREAD)
    /\ InitShared(PoolSize)

NextRing ==
    \/ PassesBelow(MaxPasses) /\ AllocsBelow(MaxRingAllocs) /\ StrategyGetBuffer(strategy)
    \/ WalkLock
    \/ WalkCheck
    \/ BufferAlloc
    \/ RejectBuffer
    \/ \E b \in Frames : UnpinBuffer(b)

RingSpec == InitRing /\ [][NextRing]_vars

\* POLICY_CLOCK over a small pool, calls made with the caller's bulk-read
\* access strategy and calls made without one, and the background writer
\* reading the counter.
InitCount ==
    /\ BufferReplacementPolicy = POLICY_CLOCK
    /\ strategy = GetAccessStrategy(BAS_BULKREAD)
    /\ InitShared(SmallPoolSize)

NextCount ==
    \/ PassesBelow(MaxPasses) /\ AllocsBelow(MaxCount) /\ StrategyGetBuffer(strategy)
    \/ PassesBelow(MaxPasses) /\ AllocsBelow(MaxCount) /\ StrategyGetBuffer(NoStrategy)
    \/ BufferAlloc
    \/ \E b \in Frames : UnpinBuffer(b)
    \/ \E na \in BOOLEAN : StrategySyncStart(FALSE, na)

CountSpec == InitCount /\ [][NextCount]_vars

\* POLICY_CLOCK alone, one operation at a time, no access strategy.
InitClock ==
    /\ BufferReplacementPolicy = POLICY_CLOCK
    /\ strategy = NoStrategy
    /\ InitShared(PoolSize)

NextClock ==
    \/ PassesBelow(MaxClockPasses) /\ AllocsBelow(MaxAllocs) /\ StrategyGetBuffer(NoStrategy)
    \/ BufferAlloc
    \/ \E b \in Frames : UnpinBuffer(b)
    \/ \E cp \in BOOLEAN, na \in BOOLEAN : StrategySyncStart(cp, na)

ClockSpec == InitClock /\ [][NextClock]_vars

\* POLICY_CLOCK with frames handed back by StrategyFreeBuffer, for as long as
\* it takes to bring the hand to any frame with every usage_count at 1.
NextSweep ==
    \/ PassesBelow(MaxClockPasses) /\ AllocsBelow(MaxSweepAllocs) /\ StrategyGetBuffer(NoStrategy)
    \/ BufferAlloc
    \/ \E b \in Frames : UnpinBuffer(b)
    \/ \E b \in Frames : /\ BufferDescriptors[b].refcount = 0
                         /\ Len(FreeList) < MaxFreeList
                         /\ StrategyFreeBuffer(b)

SweepSpec == InitClock /\ [][NextSweep]_vars

\* POLICY_CLOCK with frames handed back by StrategyFreeBuffer; nobody resets
\* the allocation counter.
NextFree ==
    \/ PassesBelow(MaxPasses) /\ AllocsBelow(MaxRingAllocs) /\ StrategyGetBuffer(NoStrategy)
    \/ BufferAlloc
    \/ \E b \in Frames : UnpinBuffer(b)
    \/ \E b \in Frames : /\ BufferDescriptors[b].refcount = 0
                         /\ Len(FreeList) < MaxFreeList
                         /\ StrategyFreeBuffer(b)

FreeSpec == InitClock /\ [][NextFree]_vars

\* POLICY_CLOCK with StrategyFreeBuffer called on any frame, pinned or not,
\* on the freelist or not.
NextList ==
    \/ PassesBelow(MaxPasses) /\ AllocsBelow(MaxRingAllocs) /\ StrategyGetBuffer(NoStrategy)
    \/ BufferAlloc
    \/ \E b \in Frames : UnpinBuffer(b)
    \/ \E b \in Frames : StrategyFreeBuffer(b)

ListSpec == InitClock /\ [][NextList]_vars

\* POLICY_CLOCK, the caller's access strategy being of any of the three ring
\* types.
InitReject ==
    /\ BufferReplacementPolicy = POLICY_CLOCK
    /\ strategy \in {GetAccessStrategy(t) : t \in {BAS_BULKREAD, BAS_BULKWRITE, BAS_VACUUM}}
    /\ InitShared(PoolSize)

NextReject ==
    \/ PassesBelow(MaxPasses) /\ AllocsBelow(MaxRingAllocs) /\ StrategyGetBuffer(strategy)
    \/ BufferAlloc
    \/ RejectBuffer
    \/ \E b \in Frames : UnpinBuffer(b)

RejectSpec == InitReject /\ [][NextReject]_vars

\* Any policy, calls made with the caller's bulk-read access strategy and
\* calls made without one, and the background writer asking to be woken.
NextLatch ==
    \/ PassesBelow(MaxPasses) /\ AllocsBelow(MaxRingAllocs) /\ StrategyGetBuffer(strategy)
    \/ PassesBelow(MaxPasses) /\ AllocsBelow(MaxRingAllocs) /\ StrategyGetBuffer(NoStrategy)
    \/ WalkLock
    \/ WalkCheck
    \/ BufferAlloc
    \/ \E b \in Frames : UnpinBuffer(b)
    \/ \E l \in Latches \cup {NULL} : StrategyNotifyBgWriter(l)

LatchSpec == InitRing /\ [][NextLatch]_vars

\* POLICY_CLOCK or POLICY_2Q, no access strategy: NumProcs backends that
\* take frames and drop their pins.
InitUnpin ==
    /\ BufferReplacementPolicy \in {POLICY_CLOCK, POLICY_2Q}
    /\ strategy = NoStrategy
    /\ InitShared(PoolSize)

NextUnpin ==
    \/ \E p \in Procs : /\ PassesBelow(MaxPasses) /\ AllocsBelow(MaxRingAllocs)
                        /\ GetBufferLock(p)
    \/ \E p \in Procs : GetBufferScan(p)
    \/ \E p \in Procs : GetBufferPin(p)
    \/ \E p \in Procs, b \in Frames : UnpinEnter(p, b)
    \/ \E p \in Procs : UnpinTryLock(p)

UnpinSpec == InitUnpin /\ [][NextUnpin]_vars

\* The same backends under POLICY_LRU or POLICY_MRU.
InitSkip ==
    /\ BufferReplacementPolicy \in {POLICY_LRU, POLICY_MRU}
    /\ strategy = NoStrategy
    /\ InitShared(PoolSize)

SkipSpec == InitSkip /\ [][NextUnpin]_vars

\* Any policy over a small pool: NumProcs backends that take frames, unpin
\* them and hand them back, each lock a step of its own, and the background
\* writer, whose StrategySyncStart calls here pass no num_buf_alloc (the
\* counter, left alone, puts an end to the calls).
InitLock ==
    /\ BufferReplacementPolicy \in Policies
    /\ strategy = NoStrategy
    /\ InitShared(SmallPoolSize)

NextLock ==
    \/ \E p \in Procs : /\ PassesBelow(MaxPasses) /\ AllocsBelow(MaxCount)
                        /\ GetBufferCalled(p)
    \/ \E p \in Procs : GetBufferAcquire(p)
    \/ \E p \in Procs : GetBufferSetLatch(p)
    \/ \E p \in Procs : GetBufferReacquire(p)
    \/ \E p \in Procs : GetBufferScan(p)
    \/ \E p \in Procs : GetBufferPin(p)
    \/ \E p \in Procs, b \in Frames : UnpinEnter(p, b)
    \/ \E p \in Procs : UnpinTryLock(p)
    \/ \E p \in Procs, b \in Frames : FreeBufferCalled(p, b)
    \/ \E p \in Procs : FreeBufferLocked(p)
    \/ SyncStartLocked(FALSE)
    \/ \E l \in Latches : Len(signals) < MaxNotify /\ NotifyBgWriter(l)
    \/ StrategyControl.bgwriterLatch # NULL /\ NotifyBgWriter(NULL)

LockSpec == InitLock /\ [][NextLock]_vars

\* POLICY_CLOCK, no access strategy: NumProcs backends that take frames, and
\* the bgwriter.
NextSignal ==
    \/ \E p \in Procs : /\ PassesBelow(MaxPasses) /\ AllocsBelow(MaxRingAllocs)
                        /\ GetBufferLock(p)
    \/ \E p \in Procs : GetBufferSetLatch(p)
    \/ \E p \in Procs : GetBufferReacquire(p)
    \/ \E p \in Procs : GetBufferScan(p)
    \/ \E p \in Procs : GetBufferPin(p)
    \/ \E l \in Latches : Len(signals) < MaxNotify /\ NotifyBgWriter(l)
    \/ StrategyControl.bgwriterLatch # NULL /\ NotifyBgWriter(NULL)

SignalSpec == InitClock /\ [][NextSignal]_vars

\* ---------------------------------------------------------------- the queues
\* The frames met by following next from b, at most fuel of them.
RECURSIVE QueueFrom(_, _, _)
QueueFrom(bd, b, fuel) ==
    IF b = NULL \/ fuel = 0 THEN <<>>
    ELSE <<b>> \o QueueFrom(bd, bd[b].next, fuel - 1)

AmOf(sc, bd) == QueueFrom(bd, sc.firstUnpinned, NBuffers)
A1Of(sc, bd) == QueueFrom(bd, sc.a1Head, NBuffers)
Am == AmOf(StrategyControl, BufferDescriptors)
A1 == A1Of(StrategyControl, BufferDescriptors)

Range(q) == {q[i] : i \in DOMAIN q}
Without(q, b) == SelectSeq(q, LAMBDA x : x # b)

\* A well-formed doubly-linked list from head to tail.
WellFormed(bd, head, tail) ==
    LET q == QueueFrom(bd, head, NBuffers + 1)
    IN  /\ (head = NULL) = (tail = NULL)
        /\ head # NULL =>
              /\ Len(q) <= NBuffers
              /\ Cardinality(Range(q)) = Len(q)
              /\ bd[head].previous = NULL
              /\ q[Len(q)] = tail
              /\ bd[tail].next = NULL
              /\ \A i \in 1 .. (Len(q) - 1) : bd[q[i + 1]].previous = q[i]

QueuesWellFormed(sc, bd) ==
    /\ WellFormed(bd, sc.firstUnpinned, sc.lastUnpinned)
    /\ WellFormed(bd, sc.a1Head, sc.a1Tail)

OnFreeList(b) == BufferDescriptors[b].freeNext # FREENEXT_NOT_IN_LIST
AllPinned == \A b \in Frames : BufferDescriptors[b].refcount > 0

\* StrategyGetBuffer has come to its end: it returned, raised an error or
\* the process was killed.
Returned == last.op = "StrategyGetBuffer" /\ pc = "idle" /\ last.outcome # "hang"

\* The frames with refcount = 0 that BufferUnpinned has been called for,
\* oldest call first.
Candidates == SelectSeq(unpinOrder, LAMBDA b : BufferDescriptors[b].refcount = 0)

\* ------------------------------------------------------------------- claims
\* C1: whenever StrategyGetBuffer returns a frame, under any policy and on
\* any path, the frame has refcount = 0 and its header lock is held.
C1_ReturnContract ==
    Pending => /\ BufferDescriptors[last.buf].refcount = 0
               /\ BufferDescriptors[last.buf].buf_hdr_lock

\* C2: every frame is on at most one of the freelist, the main victim queue
\* and the A1 queue.
C2_Partition ==
    \A b \in Frames :
        /\ ~(OnFreeList(b) /\ b \in Range(Am))
        /\ ~(OnFreeList(b) /\ b \in Range(A1))
        /\ ~(b \in Range(Am) /\ b \in Range(A1))

\* C3: after every BufferUnpinned and every StrategyGetBuffer the main queue
\* and the A1 queue are well-formed doubly-linked lists.
C3_WellFormedQueues == QueuesWellFormed(StrategyControl, BufferDescriptors)

\* C4: a StrategyGetBuffer call that has started eventually returns a frame or
\* fails: the queue walk does not go on forever.
C4_Terminates == (pc # "idle") ~> (pc = "idle")

\* C5: with the freelist empty and every frame pinned, StrategyGetBuffer
\* without a ring ends with "no unpinned buffers available" and nothing else.
C5_AllPinnedFails ==
    (Returned /\ ~last.strategy /\ last.freelist_empty /\ AllPinned)
        => last.outcome = "NoUnpinnedBuffers"

\* C6: on every successful return of StrategyGetBuffer, lock_held is true and
\* the freelist lock is held exactly when the frame came from the global
\* path; on a ring hit lock_held is false and the lock is not held.
C6_LockHeldIffGlobal ==
    Pending => /\ last.lock_held = (last.path # "ring")
               /\ BufFreelistLock = last.lock_held

\* A ring hit: the frame is returned and the freelist lock is free.
C6_Witness == Pending /\ last.path = "ring" /\ ~last.lock_held /\ ~BufFreelistLock

\* C7: under LRU with the freelist empty, StrategyGetBuffer returns the frame
\* with refcount = 0 whose latest BufferUnpinned is the oldest.
C7_LruOldest ==
    (BufferReplacementPolicy = POLICY_LRU /\ Returned /\ last.freelist_empty
     /\ Candidates # <<>>)
        => (last.outcome = "ok" /\ last.buf = Head(Candidates))

\* C8: under MRU with the freelist empty, a StrategyGetBuffer call made
\* while some frame with refcount = 0 has been passed to BufferUnpinned
\* returns, of those frames, the one whose latest BufferUnpinned is the newest.
C8_MruNewest ==
    (BufferReplacementPolicy = POLICY_MRU /\ pc # "idle" /\ last.freelist_empty
     /\ Candidates # <<>>)
        ~> (Returned /\ last.outcome = "ok" /\ Candidates # <<>>
            /\ last.buf = Candidates[Len(Candidates)])

\* The first frame of q with refcount = 0, NULL if q has none.
FirstUnpinnedOf(q) ==
    LET c == SelectSeq(q, LAMBDA b : BufferDescriptors[b].refcount = 0)
    IN  IF c = <<>> THEN NULL ELSE Head(c)

\* The step is a StrategyGetBuffer call made with the freelist empty.
GetBufferStep ==
    /\ last'.op = "StrategyGetBuffer"
    /\ last'.freelist_empty

GetBufferCall == Idle /\ last'.op = "StrategyGetBuffer"

C12_SyncStartReadAndClear ==
    [][/\ last'.op = "StrategySyncStart" =>
              /\ last'.buf = StrategyControl.nextVictimBuffer
              /\ last'.allocs # NULL =>
                    /\ last'.allocs = StrategyControl.numBufferAllocs
                    /\ StrategyControl'.numBufferAllocs = 0
              /\ last'.allocs = NULL =>
                    StrategyControl'.numBufferAllocs = StrategyControl.numBufferAllocs
              /\ last'.passes # NULL => last'.passes = StrategyControl.completePasses
              /\ StrategyControl' =
                    [StrategyControl EXCEPT
                        !.numBufferAllocs = StrategyControl'.numBufferAllocs]
              /\ BufferDescriptors' = BufferDescriptors
       /\ (last'.op # "StrategySyncStart" /\ ~GetBufferCall) =>
              StrategyControl'.numBufferAllocs = StrategyControl.numBufferAllocs
      ]_vars

\* StrategySyncStart has reported a count above zero and reset the counter,
\* with the clock hand away from frame 0.
C12_Witness ==
    /\ last.op = "StrategySyncStart"
    /\ last.allocs # NULL /\ last.allocs > 0
    /\ StrategyControl.numBufferAllocs = 0
    /\ StrategyControl.nextVictimBuffer > 0
    /\ last.buf = StrategyControl.nextVictimBuffer

\* C13: in every reachable state and for every frame f, StrategyFreeBuffer(f)
\* run twice leaves the shared state as one run leaves it, f being on the
\* freelist after the first run; run on a frame that is already on the
\* freelist it changes nothing.
C13_FreeBufferIdempotent ==
    \A f \in Frames :
        LET once  == FreeBufferResult(StrategyControl, BufferDescriptors, f)
            twice == FreeBufferResult(once.sc, once.bd, f)
        IN  /\ twice = once
            /\ once.bd[f].freeNext # FREENEXT_NOT_IN_LIST
            /\ once.sc.firstFreeBuffer >= 0
            /\ f \in Range(FreeList) =>
                  once = [sc |-> StrategyControl, bd |-> BufferDescriptors]
            /\ ~f \in Range(FreeList) =>
                  /\ once.sc.firstFreeBuffer = f
                  /\ once.bd[f].freeNext = StrategyControl.firstFreeBuffer

\* StrategyFreeBuffer has put frame 0 back on the emptied freelist while
\* another frame is off it.
C13_Witness ==
    /\ StrategyControl.firstFreeBuffer = 0
    /\ BufferDescriptors[0].freeNext = FREENEXT_END_OF_LIST
    /\ StrategyControl.lastFreeBuffer = 0
    /\ \E f \in Frames : ~f \in Range(FreeList)

\* C14: when StrategyGetBuffer, called with an access strategy, has returned
\* a frame that did not come from the ring (freelist, CLOCK, LRU, MRU or 2Q),
\* the ring slot buffers[current] names that frame.
C14_RingSlotFilled ==
    (Returned /\ last.strategy /\ last.outcome = "ok" /\ last.path # "ring") =>
        strategy.buffers[strategy.current] = BufferDescriptorGetBuffer(last.buf)

\* C15: the ring changes outside StrategyGetBuffer only when
\* StrategyRejectBuffer returns true: the strategy is BAS_BULKREAD, the frame
\* asked about is the one the most recent StrategyGetBuffer returned from the
\* ring (current_was_in_ring, buffers[current] names it), and the one change
\* is InvalidBuffer written to that slot.  A slot holding InvalidBuffer is
\* filled only by a StrategyGetBuffer that has arrived at it and gone to the
\* global path, and a StrategyGetBuffer arriving at such a slot does not return
\* from the ring and leaves current_was_in_ring false.  A BAS_BULKWRITE or
\* BAS_VACUUM ring is never changed by StrategyRejectBuffer.
C15_RejectBlanksSlot ==
    [][/\ (strategy' # strategy /\ ~GetBufferCall) =>
              /\ strategy.btype = BAS_BULKREAD
              /\ last.op = "BufferAlloc" /\ last.path = "ring"
              /\ strategy.current_was_in_ring
              /\ strategy.buffers[strategy.current] = BufferDescriptorGetBuffer(last.buf)
              /\ strategy' = [strategy EXCEPT !.buffers[strategy.current] = InvalidBuffer]
       /\ (strategy.btype # BAS_BULKREAD /\ ~GetBufferCall) => strategy' = strategy
       /\ (GetBufferCall /\ strategy.buffers[strategy'.current] = InvalidBuffer) =>
              /\ last'.path # "ring"
              /\ ~strategy'.current_was_in_ring
       /\ \A i \in DOMAIN strategy.buffers :
              (strategy.buffers[i] = InvalidBuffer /\ strategy'.buffers[i] # InvalidBuffer) =>
                  /\ GetBufferCall
                  /\ strategy'.current = i
                  /\ last'.path # "ring"
       /\ last'.op = "BufferAlloc" =>
              /\ strategy'.current_was_in_ring <=> last'.path = "ring"
              /\ last'.path = "ring" =>
                    strategy'.buffers[strategy'.current] = BufferDescriptorGetBuffer(last'.buf)
      ]_vars

\* StrategyRejectBuffer has returned true: the slot of the last ring hit
\* holds InvalidBuffer.
C15_Witness ==
    /\ strategy.btype = BAS_BULKREAD
    /\ strategy.current_was_in_ring
    /\ strategy.buffers[strategy.current] = InvalidBuffer
    /\ last.op # "BufferAlloc"

\* C16 as stated: under POLICY_CLOCK every StrategyGetBuffer call during which
\* the hand does not wrap leaves nextVictimBuffer above where it was.
C16_EveryCallAdvances ==
    [][(/\ GetBufferCall
        /\ BufferReplacementPolicy = POLICY_CLOCK
        /\ StrategyControl'.completePasses = StrategyControl.completePasses) =>
            StrategyControl'.nextVictimBuffer > StrategyControl.nextVictimBuffer
      ]_vars

\* C16: under POLICY_CLOCK a StrategyGetBuffer call that runs the clock sweep
\* without the hand wrapping leaves nextVictimBuffer above where it was; a
\* call that returns a frame of the freelist leaves the hand and
\* completePasses as they were.
C16_SweepAdvances ==
    [][(GetBufferCall /\ BufferReplacementPolicy = POLICY_CLOCK) =>
          /\ (/\ last'.path = "clock"
              /\ StrategyControl'.completePasses = StrategyControl.completePasses) =>
                 StrategyControl'.nextVictimBuffer > StrategyControl.nextVictimBuffer
          /\ last'.path = "freelist" =>
                 /\ StrategyControl'.nextVictimBuffer = StrategyControl.nextVictimBuffer
                 /\ StrategyControl'.completePasses = StrategyControl.completePasses
          /\ last'.path \in {"clock", "freelist"}
      ]_vars

\* The clock sweep has returned frame 1 with the hand moved on to frame 2 in
\* the pass after the first wrap.
C16_Witness ==
    /\ BufferReplacementPolicy = POLICY_CLOCK
    /\ last.op = "StrategyGetBuffer" /\ last.path = "clock" /\ last.outcome = "ok"
    /\ StrategyControl.completePasses = 1
    /\ last.buf = 1
    /\ StrategyControl.nextVictimBuffer = 2

\* C20: a StrategyGetBuffer call under POLICY_CLOCK that finds the freelist
\* empty fails with NoUnpinnedBuffers exactly when every frame has
\* refcount > 0, and then the hand has gone once round the pool and no
\* usage_count has changed; when some frame has refcount = 0 the call returns
\* a frame that had refcount = 0 and has usage_count = 0.  The sweep changes
\* no refcount, lowers usage_count only, and leaves the usage_count of every
\* frame with refcount > 0 as it was.
C20_ClockFailsOnlyAllPinned ==
    [][(/\ GetBufferCall
        /\ BufferReplacementPolicy = POLICY_CLOCK
        /\ StrategyControl.firstFreeBuffer < 0) =>
          /\ last'.path = "clock"
          /\ last'.outcome = "NoUnpinnedBuffers" <=> AllPinned
          /\ last'.outcome \in {"NoUnpinnedBuffers", "ok"}
          /\ last'.outcome = "NoUnpinnedBuffers" =>
                /\ \A f \in Frames :
                      BufferDescriptors'[f].usage_count = BufferDescriptors[f].usage_count
                /\ StrategyControl'.nextVictimBuffer = StrategyControl.nextVictimBuffer
                /\ StrategyControl'.completePasses = StrategyControl.completePasses + 1
          /\ last'.outcome = "ok" =>
                /\ BufferDescriptors[last'.buf].refcount = 0
                /\ BufferDescriptors'[last'.buf].usage_count = 0
          /\ \A f \in Frames :
                /\ BufferDescriptors'[f].refcount = BufferDescriptors[f].refcount
                /\ BufferDescriptors'[f].usage_count <= BufferDescriptors[f].usage_count
                /\ BufferDescriptors[f].refcount > 0 =>
                      BufferDescriptors'[f].usage_count = BufferDescriptors[f].usage_count
      ]_vars

\* The sweep has gone past a pinned frame, lowered the usage_count of the
\* frames with refcount = 0 and returned one of them on its second visit.
C20_Witness ==
    /\ BufferReplacementPolicy = POLICY_CLOCK
    /\ last.op = "StrategyGetBuffer" /\ last.path = "clock" /\ last.outcome = "ok"
    /\ last.freelist_empty
    /\ \E f \in Frames : BufferDescriptors[f].refcount > 0 /\ BufferDescriptors[f].usage_count = 1
    /\ \E f \in Frames \ {last.buf} :
          BufferDescriptors[f].refcount = 0 /\ BufferDescriptors[f].usage_count = 0

\* C17: BufferUnpinned does not wait for the freelist lock.  When the lock is
\* held (by another process) at LWLockConditionalAcquire the call returns at
\* once and StrategyControl (firstUnpinned, lastUnpinned, a1Head, a1Tail) and
\* every frame's previous / next are as they were, the lock staying with its
\* holder; when the call takes the lock it has given it up when it returns.
C17_UnpinnedNeverWaits ==
    [][\A p \in Procs :
          (procs[p].pc = "unpinned" /\ procs'[p].pc # "unpinned") =>
              /\ ~procs[p].holds
              /\ BufFreelistLock <=> (\E q \in Procs \ {p} : procs[q].holds)
              /\ IF BufFreelistLock THEN
                     /\ last'.outcome = "skipped"
                     /\ procs'[p].pc = "idle"
                     /\ StrategyControl' = StrategyControl
                     /\ BufferDescriptors' = BufferDescriptors
                     /\ BufFreelistLock'
                     /\ \A q \in Procs \ {p} : procs'[q] = procs[q]
                 ELSE
                     /\ last'.outcome # "skipped"
                     /\ procs'[p].pc = "idle" => ~BufFreelistLock'
                     /\ procs'[p].pc \in {"idle", "hang"}
                     /\ BufFreelistLock' <=> procs'[p].pc = "hang"
      ]_vars

\* BufferUnpinned has returned without the lock, which another process holds
\* with a frame in hand; the frame it was called for has refcount 0 and is in
\* no queue.
C17_Witness ==
    /\ last.op = "BufferUnpinned" /\ last.outcome = "skipped"
    /\ BufFreelistLock
    /\ \E q \in Procs : procs[q].holds /\ procs[q].pc = "pin"
    /\ BufferDescriptors[last.buf].refcount = 0
    /\ BufferDescriptors[last.buf].previous = NULL
    /\ BufferDescriptors[last.buf].next = NULL
    /\ StrategyControl.firstUnpinned # last.buf
    /\ StrategyControl.a1Head # last.buf

\* C18: a BufferUnpinned call that takes the freelist lock leaves the queues
\* as the same call run alone at that moment would leave them, that is with
\* first, last, previous and next read while it holds the lock.
C18_UnpinnedInLockOrder ==
    [][\A p \in Procs :
          (procs[p].pc = "unpinned" /\ procs'[p].pc # "unpinned" /\ ~BufFreelistLock) =>
              LET b == procs[p].b
                  r == BufferUnpinnedLocked(BufferReplacementPolicy, StrategyControl,
                                            BufferDescriptors, b,
                                            StrategyControl.firstUnpinned,
                                            StrategyControl.lastUnpinned,
                                            BufferDescriptors[b].previous,
                                            BufferDescriptors[b].next)
              IN  /\ StrategyControl' = r.sc
                  /\ BufferDescriptors' = r.bd
      ]_vars

\* C19: with several backends in StrategyGetBuffer at once, SetLatch is called
\* at most once for each non-NULL latch that StrategyNotifyBgWriter stored, and
\* never by a process that holds the freelist lock, which has one holder at
\* most; a frame handed to a backend has refcount 0 and is pinned by no other
\* backend, so that no frame is pinned by two of them.
C19_OneSignalPerLatch ==
    /\ \A i \in DOMAIN signals : signals[i] <= 1
    /\ \A p \in Procs : procs[p].pc = "setlatch" => ~procs[p].holds
    /\ last.op = "SetLatch" => ~last.lock_held
    /\ BufFreelistLock <=> (\E p \in Procs : procs[p].holds)
    /\ \A p, q \in Procs : (procs[p].holds /\ procs[q].holds) => p = q
    /\ \A p \in Procs : procs[p].pc \in {"scan", "pin"} => procs[p].holds
    /\ \A p \in Procs : procs[p].pc = "pin" =>
          /\ BufferDescriptors[procs[p].b].refcount = 0
          /\ \A q \in Procs : procs[p].b \notin procs[q].pinned
    /\ \A p, q \in Procs : p # q => procs[p].pinned \cap procs[q].pinned = {}
    /\ \A f \in Frames :
          BufferDescriptors[f].refcount = Cardinality({p \in Procs : f \in procs[p].pinned})

\* A backend that counted the first allocation and left the lock to call
\* SetLatch has been given frame 1: the other backend took frame 0 in between.
C19_Witness ==
    \E p, q \in Procs :
        /\ procs[p].pc = "pin" /\ procs[p].latch # NULL /\ procs[p].alloc = 1
        /\ procs[p].b = 1
        /\ procs[q].pinned = {0}
        /\ signals[procs[p].latch] = 1

\* C21 as stated: under POLICY_CLOCK, with the freelist empty and every frame
\* at refcount 0 and usage_count 1, StrategyGetBuffer returns the frame the
\* hand was at, with every usage_count at 0, the hand one further (modulo
\* NBuffers) and completePasses one higher, wherever the hand was.
C21_OnePassOneWrap ==
    [][(/\ GetBufferCall
        /\ BufferReplacementPolicy = POLICY_CLOCK
        /\ StrategyControl.firstFreeBuffer < 0
        /\ \A f \in Frames : /\ BufferDescriptors[f].refcount = 0
                             /\ BufferDescriptors[f].usage_count = 1) =>
          /\ last'.outcome = "ok"
          /\ last'.buf = StrategyControl.nextVictimBuffer
          /\ \A f \in Frames : BufferDescriptors'[f].usage_count = 0
          /\ StrategyControl'.nextVictimBuffer =
                (StrategyControl.nextVictimBuffer + 1) % NBuffers
          /\ StrategyControl'.completePasses = StrategyControl.completePasses + 1
      ]_vars

\* C21: under POLICY_CLOCK, with the freelist empty and every frame at
\* refcount 0 and usage_count 1, StrategyGetBuffer returns the frame the hand
\* was at with its header locked, every usage_count at 0 and the hand one
\* further (modulo NBuffers); the sweep looks at NBuffers + 1 frames, one
\* header lock each, which is at most 2 * NBuffers; completePasses goes up by
\* one, and by two when the hand was at the last frame, which it leaves
\* twice.
C21_OnePassThenEvict ==
    [][(/\ GetBufferCall
        /\ BufferReplacementPolicy = POLICY_CLOCK
        /\ StrategyControl.firstFreeBuffer < 0
        /\ \A f \in Frames : /\ BufferDescriptors[f].refcount = 0
                             /\ BufferDescriptors[f].usage_count = 1) =>
          LET start == StrategyControl.nextVictimBuffer
              wraps == StrategyControl'.completePasses - StrategyControl.completePasses
              visits == StrategyControl'.nextVictimBuffer - start + NBuffers * wraps
          IN  /\ last'.outcome = "ok"
              /\ last'.path = "clock"
              /\ last'.buf = start
              /\ BufferDescriptors'[start].buf_hdr_lock
              /\ \A f \in Frames : /\ BufferDescriptors'[f].usage_count = 0
                                   /\ BufferDescriptors'[f].refcount = 0
              /\ StrategyControl'.nextVictimBuffer = (start + 1) % NBuffers
              /\ wraps = IF start = NBuffers - 1 THEN 2 ELSE 1
              /\ visits = NBuffers + 1
              /\ visits <= 2 * NBuffers
      ]_vars

\* The sweep has started at the last frame with every frame at refcount 0
\* and usage_count 1: it has lowered NBuffers usage_counts, wrapped twice and
\* returned the last frame.
C21_Witness ==
    /\ BufferReplacementPolicy = POLICY_CLOCK
    /\ last.op = "StrategyGetBuffer" /\ last.path = "clock" /\ last.outcome = "ok"
    /\ last.freelist_empty
    /\ last.swept = NBuffers
    /\ last.wraps = 2
    /\ last.buf = NBuffers - 1
    /\ StrategyControl.nextVictimBuffer = 0
    /\ \A f \in Frames : /\ BufferDescriptors[f].refcount = 0
                         /\ BufferDescriptors[f].usage_count = 0

\* C22: when StrategyGetBuffer under POLICY_LRU or POLICY_MRU has failed with
\* "no unpinned buffers available", every frame has refcount > 0.
C22_FailsOnlyAllPinned ==
    (/\ BufferReplacementPolicy \in {POLICY_LRU, POLICY_MRU}
     /\ last.op = "StrategyGetBuffer"
     /\ last.outcome = "NoUnpinnedBuffers") => AllPinned

\* C23: numBufferAllocs is at all times the number of StrategyGetBuffer calls
\* that went past the ring since StrategyInitialize or the last resetting
\* StrategySyncStart, the calls that failed with "no unpinned buffers
\* available" among them; StrategySyncStart with num_buf_alloc given returns
\* that number, and a call answered from the ring leaves the counter alone.
C23_CountsCallsPastRing ==
    [][/\ StrategyControl.numBufferAllocs = last.calls
       /\ StrategyControl'.numBufferAllocs = last'.calls
       /\ (last'.op = "StrategySyncStart" /\ last'.allocs # NULL) =>
              last'.allocs = last.calls
       /\ (GetBufferCall /\ last'.path = "ring") =>
              StrategyControl'.numBufferAllocs = StrategyControl.numBufferAllocs
       /\ (GetBufferCall /\ last'.outcome = "NoUnpinnedBuffers") =>
              last'.calls = last.calls + 1]_vars

\* A call has just been answered from the ring, after a reset of the
\* counter and one call since that went past the ring: the counter stands at 1.
C23_Witness ==
    /\ last.op = "StrategyGetBuffer"
    /\ last.path = "ring"
    /\ last.calls = 1
    /\ StrategyControl.numBufferAllocs = 1
    /\ \A i \in DOMAIN strategy.buffers : strategy.buffers[i] # InvalidBuffer

\* The freelist of sc and bd: firstFreeBuffer is -1 exactly when no frame has
\* freeNext # FREENEXT_NOT_IN_LIST; otherwise the chain of freeNext from
\* firstFreeBuffer holds each such frame once and ends at lastFreeBuffer.
FreelistWellFormed(sc, bd) ==
    LET n == Cardinality(DOMAIN bd)
        fl == FreeListFrom(bd, sc.firstFreeBuffer, n + 1)
        members == {f \in DOMAIN bd : bd[f].freeNext # FREENEXT_NOT_IN_LIST}
    IN  /\ sc.firstFreeBuffer \in DOMAIN bd \cup {FREENEXT_END_OF_LIST}
        /\ (sc.firstFreeBuffer = FREENEXT_END_OF_LIST) <=> (members = {})
        /\ members # {} =>
              /\ Len(fl) = Cardinality(members)
              /\ Range(fl) = members
              /\ fl[Len(fl)] = sc.lastFreeBuffer
              /\ bd[sc.lastFreeBuffer].freeNext = FREENEXT_END_OF_LIST

\* C24: before and after every step of StrategyGetBuffer, StrategyFreeBuffer
\* and the callers' pins and unpins the freelist is well-formed; the frames a
\* StrategyGetBuffer call took off the freelist are the head of the list, have
\* freeNext = FREENEXT_NOT_IN_LIST afterwards, and all but a returned one are
\* pinned or used; the first call after StrategyInitialize returns frame 0
\* and leaves firstFreeBuffer = 1 and lastFreeBuffer = NBuffers - 1.
C24_FreelistWellFormed ==
    [][/\ FreelistWellFormed(StrategyControl, BufferDescriptors)
       /\ FreelistWellFormed(StrategyControl', BufferDescriptors')
       /\ GetBufferCall =>
             /\ FreeList = SubSeq(FreeList, 1, last'.popped) \o FreeList'
             /\ \A i \in 1 .. last'.popped :
                   /\ BufferDescriptors'[FreeList[i]].freeNext = FREENEXT_NOT_IN_LIST
                   /\ \/ last'.path = "freelist" /\ i = last'.popped /\ last'.buf = FreeList[i]
                      \/ BufferDescriptors[FreeList[i]].refcount > 0
                      \/ BufferDescriptors[FreeList[i]].usage_count > 0
             /\ last'.path = "freelist" => last'.popped > 0
       /\ (/\ GetBufferCall
           /\ StrategyControl = InitControl(NBuffers)
           /\ BufferDescriptors = InitDescriptors(NBuffers)) =>
             /\ last'.buf = 0
             /\ last'.outcome = "ok"
             /\ StrategyControl'.firstFreeBuffer = 1
             /\ StrategyControl'.lastFreeBuffer = NBuffers - 1]_vars

\* StrategyGetBuffer has taken two frames off a freelist of three, discarded
\* the first, which was pinned, and returned the second; the frame left is
\* both head and tail.
C24_Witness ==
    /\ last.op = "StrategyGetBuffer"
    /\ last.path = "freelist"
    /\ last.popped = 2
    /\ BufferDescriptors[last.buf].freeNext = FREENEXT_NOT_IN_LIST
    /\ Len(FreeList) = 1
    /\ StrategyControl.lastFreeBuffer = StrategyControl.firstFreeBuffer
    /\ \E f \in Frames : /\ BufferDescriptors[f].refcount > 0
                         /\ BufferDescriptors[f].freeNext = FREENEXT_NOT_IN_LIST

\* A backend is inside one of the functions and has not died.
Unfinished(p) == procs[p].pc \notin {"idle", "crash"}

\* A backend stands at LWLockAcquire and the lock is taken.
WaitsForLock(p) ==
    procs[p].pc \in {"acquire", "reacquire", "free"} /\ BufFreelistLock

\* The frames whose header lock backend p holds: the one StrategyGetBuffer
\* returned to it, until it is pinned.
HeadersOf(p) ==
    IF procs[p].pc = "pin"
    THEN {f \in Frames : f = procs[p].b /\ BufferDescriptors[f].buf_hdr_lock}
    ELSE {}

\* C25: every header lock that is held is held by the one backend it was
\* returned to, no backend holds two, none waits for BufFreelistLock with a
\* header lock in hand, and there is no state in which some backend is inside
\* a function and every such backend waits for a lock.
C25_DeadlockFree ==
    /\ \A f \in Frames : BufferDescriptors[f].buf_hdr_lock =>
                             \E p \in Procs : f \in HeadersOf(p)
    /\ \A p \in Procs : Cardinality(HeadersOf(p)) <= 1
    /\ \A p \in Procs : WaitsForLock(p) => HeadersOf(p) = {}
    /\ ~(/\ \E p \in Procs : Unfinished(p)
         /\ \A p \in Procs : Unfinished(p) => WaitsForLock(p))

====
